---------------------------- MODULE Spec2Model ----------------------------
(***************************************************************************)
(* Model of paper/scripts/summarize_real_trimming_accuracy.py and of the   *)
(* BAMReader / enumerate_range helpers of paper/scripts/common.py.         *)
(*                                                                         *)
(* Reading conventions used throughout:                                    *)
(*  - Python None is modelled by the value None (-1 where an integer is    *)
(*    expected and -1 is not otherwise possible, NoName for a record).     *)
(*  - An exception that leaves summarize() is modelled by pc = "aborted"   *)
(*    with the exception's name in err.                                    *)
(*  - set_trimming's "for ... / elif use_edit_distance: / else:" is read   *)
(*    as the for-else it is indented as: the two branches run only when    *)
(*    the loop ended without break.                                        *)
(*  - editdistance.eval is the Levenshtein distance.                       *)
(*  - summarize reads bam.finished and bam.peek(), which BAMReader does    *)
(*    not define; ReaderFront gives them the lookahead meaning the rest of *)
(*    BAMReader implies.                                                   *)
(*  - A StopIteration raised inside a generator becomes a RuntimeError on  *)
(*    interpreters with PEP 479 and ends the generator silently on older   *)
(*    ones; pep479 chooses between the two.                                *)
(***************************************************************************)
EXTENDS Integers, Sequences, FiniteSets, TLC

VARIABLES trim, reg, hs, rdr, eng, mn, clip

vars == <<trim, reg, hs, rdr, eng, mn, clip>>

None == -1

(***************************************************************************)
(* Bounds of the model.                                                    *)
(***************************************************************************)
MaxSeqLen == 4

(***************************************************************************)
(* Small helpers.                                                          *)
(***************************************************************************)
Min(a, b) == IF a < b THEN a ELSE b

Max(a, b) == IF a > b THEN a ELSE b

\* str.upper() on the letters the model draws sequences from.
UpperChar(c) ==
    CASE c = "a" -> "A"
      [] c = "c" -> "C"
      [] c = "g" -> "G"
      [] c = "t" -> "T"
      [] c = "n" -> "N"
      [] OTHER -> c

Upper(s) == [k \in 1..Len(s) |-> UpperChar(s[k])]

\* Python s[i:i+n] for 0 <= i and i+n <= len(s).
Slice(s, i, n) == SubSeq(s, i + 1, i + n)

\* All sequences over S of length lo..hi.
SeqsOf(S, lo, hi) == UNION {[1..n -> S] : n \in lo..hi}

(***************************************************************************)
(* editdistance.eval: the Levenshtein distance of two strings.             *)
(***************************************************************************)
RECURSIVE Levenshtein(_, _)
Levenshtein(a, b) ==
    IF Len(a) = 0 THEN Len(b)
    ELSE IF Len(b) = 0 THEN Len(a)
    ELSE LET sub == Levenshtein(Tail(a), Tail(b)) + (IF Head(a) = Head(b) THEN 0 ELSE 1)
             del == Levenshtein(Tail(a), b) + 1
             ins == Levenshtein(a, Tail(b)) + 1
         IN  Min(sub, Min(del, ins))

(***************************************************************************)
(* TableRead.set_trimming                                                  *)
(***************************************************************************)
\* Offsets i of range(untrimmed_len - trimmed_len + 1) whose window equals trimmed.
ExactHits(untrimmed, trimmed) ==
    {i \in 0..(Len(untrimmed) - Len(trimmed)) :
        Slice(untrimmed, i, Len(trimmed)) = trimmed}

ExactOffsetLast(untrimmed, trimmed) ==
    LET hits == ExactHits(untrimmed, trimmed)
    IN  IF hits = {} THEN None
        ELSE CHOOSE i \in hits : \A j \in hits : j <= i

\* The exact scan: the first offset that matches (the loop breaks there),
\* None when the loop runs to its end.
ExactOffset(untrimmed, trimmed) ==
    LET hits == ExactHits(untrimmed, trimmed)
    IN  IF hits = {} THEN None
        ELSE CHOOSE i \in hits : \A j \in hits : i <= j

ApproxBodyTies(untrimmed, trimmed, st, i) ==
    LET d == Levenshtein(Slice(untrimmed, i, Len(trimmed)), trimmed)
    IN  IF st[1] = None \/ st[1] = 0 THEN <<d, st[2]>>
        ELSE IF d <= st[1] THEN <<d, i>>
        ELSE st

\* One pass of the edit-distance loop body at offset i; st = <<dist, trimmed_front>>.
ApproxBody(untrimmed, trimmed, st, i) ==
    LET d == Levenshtein(Slice(untrimmed, i, Len(trimmed)), trimmed)
    IN  IF st[1] = None \/ st[1] = 0 THEN <<d, st[2]>>
        ELSE IF d < st[1] THEN <<d, i>>
        ELSE st

RECURSIVE ApproxLoop(_, _, _, _)
ApproxLoop(untrimmed, trimmed, st, i) ==
    IF i > Len(untrimmed) - Len(trimmed) THEN st
    ELSE ApproxLoop(untrimmed, trimmed, ApproxBody(untrimmed, trimmed, st, i), i + 1)

\* The edit-distance fallback: dist = None, trimmed_front = 0 before the loop.
ApproxOffset(untrimmed, trimmed) ==
    ApproxLoop(untrimmed, trimmed, <<None, 0>>, 0)[2]

SetTrimmingNoSentinel(u, t, use_edit_distance) ==
    LET untrimmed == Upper(u)
        trimmed == Upper(t)
        front == IF Len(untrimmed) > Len(trimmed)
                 THEN IF ExactOffset(untrimmed, trimmed) # None
                      THEN ExactOffset(untrimmed, trimmed)
                      ELSE IF use_edit_distance
                           THEN ApproxOffset(untrimmed, trimmed)
                           ELSE 0
                 ELSE 0
    IN  [trimmed_front |-> front,
         trimmed_back |-> Len(untrimmed) - (Len(trimmed) + front)]

\* Result of set_trimming: the two fields it assigns.
SetTrimming(u, t, use_edit_distance) ==
    LET untrimmed == Upper(u)
        trimmed == Upper(t)
        front == IF Len(untrimmed) > Len(trimmed)
                 THEN IF ExactOffset(untrimmed, trimmed) # None
                      THEN ExactOffset(untrimmed, trimmed)
                      ELSE IF use_edit_distance
                           THEN ApproxOffset(untrimmed, trimmed)
                           ELSE -1
                 ELSE 0
    IN  [trimmed_front |-> front,
         trimmed_back |-> Len(untrimmed) - (Len(trimmed) + front)]

(***************************************************************************)
(* Bed.overlaps and TableRead.set_region                                   *)
(*                                                                         *)
(* An interval is [chrom, start, end), 0-based and half-open, as pysam     *)
(* reports reference_start / reference_end and as BED files store regions. *)
(* min_overlap is held in halves (2 is 1.0) so that it stays an integer.   *)
(***************************************************************************)
\* Number of positions two half-open intervals share.
IntersectionLen(s1, e1, s2, e2) == Max(0, Min(e1, e2) - Max(s1, s2))

\* BedTool.all_hits(i, same_strand, overlap): the regions, in file order, that
\* share a base with i and cover at least the fraction `overlap` of i.
AllHits(regions, i, overlap_halves) ==
    SelectSeq(regions,
        LAMBDA h : /\ h.chrom = i.chrom
                   /\ IntersectionLen(h.start, h.end, i.start, i.end) > 0
                   /\ 2 * IntersectionLen(h.start, h.end, i.start, i.end)
                          >= overlap_halves * (i.end - i.start))

OverlapTrue(h, i) == IntersectionLen(h.start, h.end, i.start, i.end)

\* The nested _overlap(h) of Bed.overlaps.
Overlap(h, i) ==
    IF h.start < i.start THEN h.end - i.start ELSE i.end - h.start

\* Bed.overlaps(chrm, start, end) with its defaults (min_overlap = 1.0):
\* found is FALSE where it returns None, hit is the value it returns otherwise,
\* raised the exception that leaves it, overlaps the list it has built.
BedOverlaps(regions, chrm, start, end) ==
    LET i == [chrom |-> chrm, start |-> start - 1, end |-> end]
        hits == AllHits(regions, i, 2)
        overlaps == [k \in 1..Len(hits) |-> <<i, hits[k], Overlap(hits[k], i)>>]
    IN  IF Len(hits) = 0
        THEN [found |-> FALSE, hit |-> i, raised |-> "none", overlaps |-> <<>>]
        ELSE IF Len(hits) > 1
        \* list.sort() takes reverse=, not reversed=
        THEN [found |-> FALSE, hit |-> i, raised |-> "TypeError", overlaps |-> overlaps]
        ELSE [found |-> TRUE, hit |-> hits[1], raised |-> "none", overlaps |-> overlaps]

\* TableRead.set_region(regions, min_overlap).  best_hit is hits[0], an
\* interval and not a (read, region, overlap) triple: unpacking it binds
\* overlap to a text field of the interval and overlap / len(read) raises.
SetRegion(self, regions, min_overlap_halves) ==
    IF ~self.mapped
    THEN [in_region |-> self.in_region, raised |-> "none", overlaps |-> <<>>]
    ELSE LET best == BedOverlaps(regions, self.chrm, self.start, self.end)
         IN  IF best.raised # "none"
             THEN [in_region |-> 0, raised |-> best.raised, overlaps |-> best.overlaps]
             ELSE IF ~best.found
             THEN [in_region |-> 0, raised |-> "none", overlaps |-> best.overlaps]
             ELSE [in_region |-> 0, raised |-> "TypeError", overlaps |-> best.overlaps]

(***************************************************************************)
(* Specification SpecRegion: set_region applied to bounded inputs.         *)
(***************************************************************************)
MaxPos == 4

RegionIntervals ==
    {h \in [chrom : {"chr1"}, start : 0..MaxPos, end : 1..MaxPos] : h.start < h.end}

\* reference_start, reference_end of a mapped read.
RegReadSpans == {se \in (1..MaxPos) \X (2..MaxPos) : se[1] < se[2]}

RegionLists == SeqsOf(RegionIntervals, 0, 2)

RegIdle ==
    [pc |-> "idle", mapped |-> FALSE, chrm |-> "chr1", start |-> -1, end |-> -1,
     regions |-> <<>>, min_overlap_halves |-> 2, in_region |-> -1,
     raised |-> "none", overlaps |-> <<>>]

\* A TableRead after set_from_read (unmapped reads keep the defaults), the
\* regions of the BED file and the min_overlap option.
RegStart ==
    {[pc |-> "ready", mapped |-> m,
      chrm |-> IF m THEN c ELSE "chr1",
      start |-> IF m THEN se[1] ELSE -1,
      end |-> IF m THEN se[2] ELSE -1,
      regions |-> rs, min_overlap_halves |-> mo, in_region |-> -1,
      raised |-> "none", overlaps |-> <<>>] :
        m \in BOOLEAN, c \in {"chr1", "chr2"},
        se \in RegReadSpans,
        rs \in RegionLists, mo \in {1, 2}}

CallSetRegion ==
    /\ reg.pc = "ready"
    /\ UNCHANGED <<trim, hs, rdr, eng, mn, clip>>
    /\ LET r == SetRegion(reg, reg.regions, reg.min_overlap_halves)
       IN  reg' = [reg EXCEPT !.pc = "done", !.in_region = r.in_region,
                              !.raised = r.raised, !.overlaps = r.overlaps]

NextRegion == CallSetRegion

(***************************************************************************)
(* enumerate_range and Hist                                                *)
(*                                                                         *)
(* pep479 is the interpreter's generator semantics: TRUE where a           *)
(* StopIteration raised inside a generator becomes a RuntimeError (the     *)
(* default from Python 3.7 on), FALSE where it silently ends the generator.*)
(***************************************************************************)
nuc == {"A", "C", "G", "T", "N"}

NHistBases == 2

\* enumerate_range(collection, 0, end): the indices it yields before it stops,
\* and whether it stops by raising out of the generator.
EnumerateRange(collection, end, pep479) ==
    [yielded |-> Min(Len(collection), end),
     raised |-> IF Len(collection) < end /\ pep479 THEN "RuntimeError" ELSE "none"]

Reversed(s) == [k \in 1..Len(s) |-> s[Len(s) + 1 - k]]

\* Hist.__init__: hists[read][side][base][pos], all zero.
HistInit(n_bases) ==
    [read \in 1..2 |-> [side \in 0..1 |-> [base \in nuc |-> [pos \in 1..n_bases |-> 0]]]]

\* One inner loop of add_reads: hist[side][b][i] += 1 for what enumerate_range yields.
HistCount(hists, read, side, seq, yielded) ==
    [hists EXCEPT ![read][side] =
        [base \in nuc |->
            [pos \in DOMAIN hists[read][side][base] |->
                hists[read][side][base][pos]
                    + (IF pos <= yielded /\ seq[pos] = base THEN 1 ELSE 0)]]]

\* The passes of add_reads in order: (read 1, side 0), (read 1, side 1),
\* (read 2, side 0), (read 2, side 1); k is the pass to run next.
RECURSIVE HistPasses(_, _, _, _, _)
HistPasses(hists, seqs, n_bases, pep479, k) ==
    IF k > 4 THEN [hists |-> hists, raised |-> "none"]
    ELSE LET read == (k + 1) \div 2
             side == (k + 1) % 2
             seq == IF side = 0 THEN seqs[read] ELSE Reversed(seqs[read])
             er == EnumerateRange(seq, n_bases, pep479)
             h2 == HistCount(hists, read, side, seq, er.yielded)
         IN  IF er.raised # "none" THEN [hists |-> h2, raised |-> er.raised]
             ELSE HistPasses(h2, seqs, n_bases, pep479, k + 1)

\* Hist.add_reads(r1, r2) on the two query sequences.
HistAddReads(hists, seq1, seq2, n_bases, pep479) ==
    HistPasses(hists, <<seq1, seq2>>, n_bases, pep479, 1)

(***************************************************************************)
(* Specification SpecHist: add_reads applied to bounded sequences of pairs.*)
(***************************************************************************)
MaxAdds == 2

HistSeqs == SeqsOf({"A", "N"}, 1, NHistBases + 1)

HistIdle ==
    [pc |-> "idle", hists |-> HistInit(0), accepted |-> <<>>, raised |-> "none",
     pep479 |-> FALSE]

HistStart ==
    {[pc |-> "run", hists |-> HistInit(NHistBases), accepted |-> <<>>,
      raised |-> "none", pep479 |-> p] : p \in BOOLEAN}

CallAddReads ==
    /\ hs.pc = "run"
    /\ Len(hs.accepted) < MaxAdds
    /\ UNCHANGED <<trim, reg, rdr, eng, mn, clip>>
    /\ \E s1 \in HistSeqs, s2 \in HistSeqs :
        LET r == HistAddReads(hs.hists, s1, s2, NHistBases, hs.pep479)
        IN  hs' = [hs EXCEPT !.hists = r.hists,
                             !.accepted = Append(@, <<s1, s2>>),
                             !.raised = r.raised,
                             !.pc = IF r.raised = "none" THEN "run" ELSE "aborted"]

NextHist == CallAddReads

(***************************************************************************)
(* Specification SpecTrim: set_trimming applied to bounded inputs.         *)
(***************************************************************************)
TrimAlphabet == {"A", "C"}

ExampleU == <<"A", "C", "G", "T", "A", "C", "G", "T", "A", "C">>

ExampleT == <<"G", "T", "A", "C">>

\* A read with soft-masked (lower-case) bases, to exercise upper().
MixedCaseU == <<"a", "c", "A">>

TrimInputs ==
    (SeqsOf(TrimAlphabet, 1, MaxSeqLen) \X SeqsOf(TrimAlphabet, 1, MaxSeqLen))
        \cup {<<ExampleU, ExampleT>>}
        \cup {<<MixedCaseU, t>> : t \in SeqsOf({"a", "C"}, 1, 2)}

TrimIdle ==
    [pc |-> "idle", u |-> <<>>, t |-> <<>>, use_edit_distance |-> FALSE,
     trimmed_front |-> 0, trimmed_back |-> 0]

TrimStart ==
    {[pc |-> "ready", u |-> ut[1], t |-> ut[2], use_edit_distance |-> use,
      trimmed_front |-> 0, trimmed_back |-> 0] :
        ut \in TrimInputs, use \in BOOLEAN}

CallSetTrimming ==
    /\ trim.pc = "ready"
    /\ UNCHANGED <<reg, hs, rdr, eng, mn, clip>>
    /\ LET r == SetTrimming(trim.u, trim.t, trim.use_edit_distance)
       IN  trim' = [trim EXCEPT !.pc = "done",
                                !.trimmed_front = r.trimmed_front,
                                !.trimmed_back = r.trimmed_back]

NextTrim == CallSetTrimming


(***************************************************************************)
(* Alignment records and name-sorted streams                               *)
(*                                                                         *)
(* Read names are 1..MaxId in sort order, 0 standing for "no record".  A   *)
(* file is produced as it is read.  Of the lookahead record only           *)
(* query_name is read before the group it opens is returned, so a reader   *)
(* holds the name of its cached record, and the records of a group are     *)
(* drawn when __next__ collects them.  last is the highest name the file   *)
(* has handed out, eof that the file iterator has raised StopIteration.    *)
(***************************************************************************)
MaxId == 3

NoName == 0

\* An aligned or unaligned record; reads are mapped at chr1:10 without clipping.
Rec(name, read1, qcfail, proper, reverse, unmapped, seq) ==
    [query_name |-> name, is_read1 |-> read1, is_qcfail |-> qcfail,
     is_proper_pair |-> proper, is_reverse |-> reverse, is_unmapped |-> unmapped,
     mapping_quality |-> IF unmapped THEN 0 ELSE 30,
     reference_name |-> IF unmapped THEN "-1" ELSE "chr1",
     reference_start |-> IF unmapped THEN -1 ELSE 10,
     reference_end |-> IF unmapped THEN -1 ELSE 10 + Len(seq),
     ref_pos |-> [k \in 1..Len(seq) |-> IF unmapped THEN None ELSE 9 + k],
     query_sequence |-> seq]

LongSeq == <<"A", "C", "G">>

ShortSeq == <<"T">>

\* The record groups a file may hold for one read name.
GroupShapes(name) ==
    { \* a proper pair, mates in opposite orientation
      << Rec(name, TRUE, FALSE, TRUE, FALSE, FALSE, LongSeq),
         Rec(name, FALSE, FALSE, TRUE, TRUE, FALSE, LongSeq) >>,
      \* the same, of reads shorter than the histogram window
      << Rec(name, TRUE, FALSE, TRUE, FALSE, FALSE, ShortSeq),
         Rec(name, FALSE, FALSE, TRUE, TRUE, FALSE, ShortSeq) >>,
      \* mate 2 unmapped, not a proper pair
      << Rec(name, TRUE, FALSE, FALSE, FALSE, FALSE, LongSeq),
         Rec(name, FALSE, FALSE, FALSE, FALSE, TRUE, LongSeq) >>,
      \* mate 1 failed quality control
      << Rec(name, TRUE, TRUE, TRUE, FALSE, FALSE, LongSeq),
         Rec(name, FALSE, FALSE, TRUE, TRUE, FALSE, LongSeq) >>,
      \* mate 1 has a second (split) alignment
      << Rec(name, TRUE, FALSE, TRUE, FALSE, FALSE, LongSeq),
         Rec(name, TRUE, FALSE, TRUE, TRUE, FALSE, LongSeq),
         Rec(name, FALSE, FALSE, TRUE, TRUE, FALSE, LongSeq) >>,
      \* mate 2 is missing from the file
      << Rec(name, TRUE, FALSE, FALSE, FALSE, FALSE, LongSeq) >> }

\* BAMReader.__init__
NewReader == [cached |-> NoName, last |-> 0, eof |-> FALSE]

\* next(self.bam) at a group boundary: the name of the record it returns,
\* NoName for StopIteration.
FileNext(rd) ==
    IF rd.eof THEN {NoName}
    ELSE {NoName} \cup {n \in 1..MaxId : n > rd.last}

\* The reader after the file iterator answered n at a group boundary.
FileAt(rd, n) ==
    IF n = NoName THEN [rd EXCEPT !.eof = TRUE] ELSE [rd EXCEPT !.last = n]

\* add_read of BAMReader.__next__ on the pair of lists <<r1, r2>>.
AddRead(lists, read) ==
    IF read.is_read1 THEN <<Append(lists[1], read), lists[2]>>
    ELSE <<lists[1], Append(lists[2], read)>>

\* add_read(read), then add_read(peek) while peek.query_name == name: recs are
\* the records of the file up to the next boundary.
RECURSIVE Collect(_, _)
Collect(lists, recs) ==
    IF recs = <<>> THEN lists
    ELSE Collect(AddRead(lists, Head(recs)), Tail(recs))

\* StopIteration leaves __next__: the lists are dropped, self.cached keeps its value.
GroupLost(rd, name, recs, names) ==
    [stop |-> TRUE, name |-> name, r1 |-> <<>>, r2 |-> <<>>,
     rd |-> rd, consumed |-> recs, names |-> names]

\* self.cached = peek; return (name, r1, r2)
GroupReturned(rd, name, recs, peek, names) ==
    LET lists == Collect(<<<<>>, <<>>>>, recs)
    IN  [stop |-> FALSE, name |-> name, r1 |-> lists[1], r2 |-> lists[2],
         rd |-> [rd EXCEPT !.cached = peek], consumed |-> recs, names |-> names]

\* Lines 109-124 for the group named `name`: its records, then the record
\* that ends the while loop, or the StopIteration that leaves __next__.
GroupOutcomes(rd, name, names) ==
    UNION {
        { IF peek = NoName
          THEN GroupLost(FileAt(rd, peek), name, g, names)
          ELSE GroupReturned(FileAt(rd, peek), name, g, peek, names \cup {peek})
          : peek \in FileNext(rd) }
        : g \in GroupShapes(name) }

\* BAMReader.__next__: the set of its outcomes; stop is StopIteration,
\* consumed the records of the group it read, names the read names the file
\* handed out during the call.
ReaderNext(rd) ==
    IF rd.cached # NoName
    THEN GroupOutcomes(rd, rd.cached, {})
    ELSE UNION {
        IF first = NoName
        THEN {GroupLost(FileAt(rd, first), NoName, <<>>, {})}
        ELSE GroupOutcomes(FileAt(rd, first), first, {first})
        : first \in FileNext(rd) }

\* bam.finished and bam.peek().query_name, which summarize uses and BAMReader
\* does not define: peek() is the lookahead record (pulled into the cache when
\* there is none), finished that the stream has no record left to look at.
ReaderFront(rd) ==
    IF rd.cached # NoName
    THEN {[finished |-> FALSE, query_name |-> rd.cached, rd |-> rd]}
    ELSE {[finished |-> n = NoName, query_name |-> n,
           rd |-> [FileAt(rd, n) EXCEPT !.cached = n]] : n \in FileNext(rd)}

(***************************************************************************)
(* Specification SpecReader: one BAMReader pulled until StopIteration.     *)
(* delivered is the stream as the file iterator handed it out, groups what *)
(* __next__ returned.                                                      *)
(***************************************************************************)
ReaderIdle == [pc |-> "idle", rd |-> NewReader, delivered |-> <<>>, groups |-> <<>>]

ReaderStart == [pc |-> "run", rd |-> NewReader, delivered |-> <<>>, groups |-> <<>>]

CallNext ==
    /\ rdr.pc = "run"
    /\ UNCHANGED <<trim, reg, hs, eng, mn, clip>>
    /\ \E o \in ReaderNext(rdr.rd) :
        rdr' = [pc |-> IF o.stop THEN "stopped" ELSE "run",
                rd |-> o.rd,
                delivered |-> rdr.delivered \o o.consumed,
                groups |-> IF o.stop THEN rdr.groups
                           ELSE Append(rdr.groups, <<o.name, o.r1, o.r2>>)]

NextReader == CallNext

(***************************************************************************)
(* TableRead, TableRow                                                     *)
(***************************************************************************)
\* read_fields (chrm's default -1 is held as the text "-1").
NewTableRead ==
    [mapped |-> FALSE, quality |-> -1, chrm |-> "-1", start |-> -1, end |-> -1,
     clipped_front |-> -1, clipped_back |-> -1, trimmed_front |-> 0,
     trimmed_back |-> 0, in_region |-> -1]

\* pair_fields and TableRow.__init__
NewRow(prog, read_name, read_idx) ==
    [prog |-> prog, read_name |-> read_name, read_idx |-> read_idx,
     failed |-> FALSE, discarded |-> FALSE, split |-> FALSE, skipped |-> FALSE,
     proper |-> FALSE, valid |-> FALSE,
     read1 |-> NewTableRead, read2 |-> NewTableRead]

\* count_soft_clipped: leading positions that are falsy ("if pos": None or 0).
RECURSIVE CountSoftClipped(_)
CountSoftClipped(seq) ==
    IF seq = <<>> THEN 0
    ELSE IF Head(seq) # None /\ Head(seq) # 0 THEN 0
    ELSE 1 + CountSoftClipped(Tail(seq))

\* TableRead.set_from_read
SetFromRead(self, r) ==
    IF r.is_unmapped
    THEN [self EXCEPT !.mapped = FALSE, !.quality = r.mapping_quality]
    ELSE [self EXCEPT !.mapped = TRUE, !.quality = r.mapping_quality,
                      !.chrm = r.reference_name,
                      !.start = r.reference_start,
                      !.end = r.reference_end,
                      !.clipped_front = CountSoftClipped(r.ref_pos),
                      !.clipped_back = CountSoftClipped(Reversed(r.ref_pos))]

\* TableRow.set_from_pair: the row, and the AssertionError of its first line.
SetFromPair(self, r1, r2) ==
    IF r1.is_proper_pair # r2.is_proper_pair
    THEN [row |-> self, raised |-> "AssertionError"]
    ELSE [row |-> [self EXCEPT !.proper = r1.is_proper_pair,
                               !.valid = r1.is_proper_pair /\ (r1.is_reverse # r2.is_reverse),
                               !.read1 = SetFromRead(self.read1, r1),
                               !.read2 = SetFromRead(self.read2, r2)],
          raised |-> "none"]

\* TableRead.set_trimming, storing its two fields.
WithTrimming(self, u, t, use_edit_distance) ==
    LET r == SetTrimming(u.query_sequence, t.query_sequence, use_edit_distance)
    IN  [self EXCEPT !.trimmed_front = r.trimmed_front, !.trimmed_back = r.trimmed_back]

(***************************************************************************)
(* summarize                                                               *)
(*                                                                         *)
(* eng.pc: "loop" at the top of the for loop, "progs" in the loop over the *)
(* trimmed readers (k is the next one), "compare" after it, "hists" after  *)
(* the for loop, "done" on return, "aborted" when an exception left it.    *)
(* rows and valid are the dicts of the current step, written the lines     *)
(* handed to the row writer, seen the read names the untrimmed file has    *)
(* handed out, added the programs whose pair add_reads took in this step,  *)
(* consumed the trimmed readers whose next(bam) returned a group in it.    *)
(***************************************************************************)
Untrimmed == "untrimmed"

\* trimmed.keys(), in insertion order
Progs == <<"p1", "p2">>

\* progs = ('untrimmed',) + tuple(trimmed.keys())
AllProgs == <<Untrimmed>> \o Progs

ProgSet == {AllProgs[j] : j \in 1..Len(AllProgs)}

EmptyDict == [x \in {} |-> 0]

Abort(e, exc) == [e EXCEPT !.pc = "aborted", !.err = exc]

\* Lines 204-223: the next untrimmed group, its row, split / failed / usable.
BaselineOutcomes(e) ==
    { LET names == o.names
      IN
      IF o.stop
      THEN [e EXCEPT !.pc = "hists", !.readers[Untrimmed] = o.rd,
                     !.seen = @ \cup names]
      ELSE
      LET e1 == [e EXCEPT !.readers[Untrimmed] = o.rd,
                          !.seen = @ \cup names,
                          !.i = @ + 1, !.name = o.name,
                          !.u1 = o.r1, !.u2 = o.r2,
                          !.rows = (Untrimmed :> NewRow(Untrimmed, o.name, e.i + 1)),
                          !.valid = EmptyDict, !.fail = FALSE, !.skip = FALSE,
                          !.k = 1, !.added = {}, !.consumed = {}]
      IN  IF ~(Len(o.r1) > 0 /\ Len(o.r2) > 0) THEN Abort(e1, "AssertionError")
          ELSE IF Len(o.r1) > 1 \/ Len(o.r2) > 1
          THEN [e1 EXCEPT !.rows[Untrimmed].split = TRUE, !.skip = TRUE, !.pc = "progs"]
          ELSE IF o.r1[1].is_qcfail \/ o.r2[1].is_qcfail
          THEN [e1 EXCEPT !.rows[Untrimmed].failed = TRUE,
                          !.skip = TRUE, !.fail = TRUE, !.pc = "progs"]
          ELSE LET h == HistAddReads(e.hists[Untrimmed], o.r1[1].query_sequence,
                                     o.r2[1].query_sequence, NHistBases, e.pep479)
                   e2 == [e1 EXCEPT !.hists[Untrimmed] = h.hists, !.added = {Untrimmed}]
                   sp == SetFromPair(e1.rows[Untrimmed], o.r1[1], o.r2[1])
               IN  IF h.raised # "none" THEN Abort(e2, h.raised)
                   ELSE IF sp.raised # "none" THEN Abort(e2, sp.raised)
                   ELSE [e2 EXCEPT !.rows[Untrimmed] = sp.row, !.pc = "progs"]
      : o \in ReaderNext(e.readers[Untrimmed]) }

ProgRowNoFail(e, prog) ==
    LET row == NewRow(prog, e.name, e.i)
    IN  IF e.skip THEN [row EXCEPT !.skipped = TRUE] ELSE row

ProgRowNoSkip(e, prog) ==
    LET row == NewRow(prog, e.name, e.i)
    IN  IF e.skip THEN [row EXCEPT !.failed = e.fail] ELSE row

\* Lines 226-229: the program's row of this step.
ProgRow(e, prog) ==
    LET row == NewRow(prog, e.name, e.i)
    IN  IF e.skip THEN [row EXCEPT !.skipped = TRUE, !.failed = e.fail] ELSE row

\* Where the loop over trimmed.items() goes after reader k.
AfterProg(e) ==
    [e EXCEPT !.k = @ + 1, !.pc = IF e.k = Len(Progs) THEN "compare" ELSE "progs"]

ConsumeOutcomeWrongHist(e, prog, o) ==
    LET e1 == [e EXCEPT !.readers[prog] = o.rd,
                        !.consumed = IF o.stop THEN @ ELSE @ \cup {prog}]
    IN  IF o.stop THEN Abort(e1, "StopIteration")
        ELSE IF ~(Len(o.r1) > 0 /\ Len(o.r2) > 0) THEN Abort(e1, "AssertionError")
        ELSE IF Len(o.r1) > 1 \/ Len(o.r2) > 1
        THEN AfterProg([e1 EXCEPT !.rows[prog].split = TRUE])
        ELSE IF ~e.skip
        THEN LET h == HistAddReads(e.hists[Untrimmed], o.r1[1].query_sequence,
                                   o.r2[1].query_sequence, NHistBases, e.pep479)
                 e2 == [e1 EXCEPT !.hists[Untrimmed] = h.hists, !.added = @ \cup {prog}]
             IN  IF h.raised # "none" THEN Abort(e2, h.raised)
                 ELSE AfterProg([e2 EXCEPT !.valid = @ @@ (prog :> <<o.r1[1], o.r2[1]>>)])
        ELSE AfterProg(e1)

\* Lines 232-240: the group next(bam) returned (or its StopIteration).
ConsumeOutcome(e, prog, o) ==
    LET e1 == [e EXCEPT !.readers[prog] = o.rd,
                        !.consumed = IF o.stop THEN @ ELSE @ \cup {prog}]
    IN  IF o.stop THEN Abort(e1, "StopIteration")
        ELSE IF ~(Len(o.r1) > 0 /\ Len(o.r2) > 0) THEN Abort(e1, "AssertionError")
        ELSE IF Len(o.r1) > 1 \/ Len(o.r2) > 1
        THEN AfterProg([e1 EXCEPT !.rows[prog].split = TRUE])
        ELSE IF ~e.skip
        THEN LET h == HistAddReads(e.hists[prog], o.r1[1].query_sequence,
                                   o.r2[1].query_sequence, NHistBases, e.pep479)
                 e2 == [e1 EXCEPT !.hists[prog] = h.hists, !.added = @ \cup {prog}]
             IN  IF h.raised # "none" THEN Abort(e2, h.raised)
                 ELSE AfterProg([e2 EXCEPT !.valid = @ @@ (prog :> <<o.r1[1], o.r2[1]>>)])
        ELSE AfterProg(e1)

ProgOutcomesUsableOnly(e) ==
    LET prog == Progs[e.k]
        e0 == [e EXCEPT !.rows = @ @@ (prog :> ProgRow(e, prog))]
    IN  UNION {
            IF ~e.skip /\ ~f.finished /\ f.query_name = e.name
            THEN {ConsumeOutcome(e0, prog, o) : o \in ReaderNext(f.rd)}
            ELSE {AfterProg([e0 EXCEPT !.readers[prog] = f.rd,
                                       !.rows[prog].discarded = TRUE])}
            : f \in ReaderFront(e.readers[prog]) }

\* Lines 226-242 for the reader Progs[e.k].
ProgOutcomes(e) ==
    LET prog == Progs[e.k]
        e0 == [e EXCEPT !.rows = @ @@ (prog :> ProgRow(e, prog))]
    IN  UNION {
            IF ~f.finished /\ f.query_name = e.name
            THEN {ConsumeOutcome(e0, prog, o) : o \in ReaderNext(f.rd)}
            ELSE {AfterProg([e0 EXCEPT !.readers[prog] = f.rd,
                                       !.rows[prog].discarded = TRUE])}
            : f \in ReaderFront(e.readers[prog]) }

\* Lines 248-251 for one program of valid.
Compared(e, prog) ==
    LET sp == SetFromPair(e.rows[prog], e.valid[prog][1], e.valid[prog][2])
    IN  [row |-> [sp.row EXCEPT
                    !.read1 = WithTrimming(@, e.u1[1], e.valid[prog][1], e.use_edit_distance),
                    !.read2 = WithTrimming(@, e.u2[1], e.valid[prog][2], e.use_edit_distance)],
         raised |-> sp.raised]

WrittenLinesReversed(e) ==
    [j \in 1..Len(AllProgs) |-> <<AllProgs[Len(AllProgs) + 1 - j], e.name, e.i>>]

\* for prog in progs: rows[prog].write(ow)
WrittenLines(e) == [j \in 1..Len(AllProgs) |-> <<AllProgs[j], e.name, e.i>>]

CompareOutcomeNoCap(e) ==
    LET rows1 == IF e.skip \/ DOMAIN e.valid = {}
                 THEN [e.rows EXCEPT ![Untrimmed].skipped = TRUE]
                 ELSE [p \in DOMAIN e.rows |->
                          IF p \in DOMAIN e.valid THEN Compared(e, p).row ELSE e.rows[p]]
        raises == ~(e.skip \/ DOMAIN e.valid = {})
                  /\ \E p \in DOMAIN e.valid : Compared(e, p).raised # "none"
    IN  IF raises THEN Abort(e, "AssertionError")
        ELSE [e EXCEPT !.rows = rows1,
                       !.written = @ \o WrittenLines(e),
                       !.pc = "loop"]

\* Lines 244-257.
CompareOutcome(e) ==
    LET rows1 == IF e.skip \/ DOMAIN e.valid = {}
                 THEN [e.rows EXCEPT ![Untrimmed].skipped = TRUE]
                 ELSE [p \in DOMAIN e.rows |->
                          IF p \in DOMAIN e.valid THEN Compared(e, p).row ELSE e.rows[p]]
        raises == ~(e.skip \/ DOMAIN e.valid = {})
                  /\ \E p \in DOMAIN e.valid : Compared(e, p).raised # "none"
    IN  IF raises THEN Abort(e, "AssertionError")
        ELSE [e EXCEPT !.rows = rows1,
                       !.written = @ \o WrittenLines(e),
                       !.pc = IF e.max_reads # None /\ e.max_reads # 0
                                 /\ e.i >= e.max_reads
                              THEN "hists" ELSE "loop"]

EngIdle ==
    [pc |-> "idle", err |-> "none", max_reads |-> None, use_edit_distance |-> TRUE,
     pep479 |-> FALSE, readers |-> [p \in ProgSet |-> NewReader],
     hists |-> [p \in ProgSet |-> HistInit(0)],
     i |-> 0, name |-> 0, u1 |-> <<>>, u2 |-> <<>>, k |-> 1,
     rows |-> EmptyDict, valid |-> EmptyDict, fail |-> FALSE, skip |-> FALSE,
     written |-> <<>>, hist_written |-> FALSE, seen |-> {}, added |-> {},
     consumed |-> {}, regions |-> <<>>]

MaxReadsOptions == {None, 1, 2}

\* The regions argument of a run with a .bed file: one region that holds every
\* read of the model.  summarize never reads the argument.
SuppliedRegions == <<[chrom |-> "chr1", start |-> 0, end |-> 20]>>

\* The state at line 197: the options, the interpreter, fresh readers and Hists.
EngStart ==
    {[EngIdle EXCEPT !.pc = "loop", !.max_reads = m, !.use_edit_distance = ed,
                     !.pep479 = pep, !.regions = SuppliedRegions,
                     !.hists = [p \in ProgSet |-> HistInit(NHistBases)]] :
        m \in MaxReadsOptions, ed \in BOOLEAN, pep \in BOOLEAN}

BaselineStep ==
    /\ eng.pc = "loop"
    /\ UNCHANGED <<trim, reg, hs, rdr, mn, clip>>
    /\ eng' \in BaselineOutcomes(eng)

ProgStep ==
    /\ eng.pc = "progs"
    /\ UNCHANGED <<trim, reg, hs, rdr, mn, clip>>
    /\ eng' \in ProgOutcomes(eng)

CompareAndWrite ==
    /\ eng.pc = "compare"
    /\ UNCHANGED <<trim, reg, hs, rdr, mn, clip>>
    /\ eng' = CompareOutcome(eng)

\* Lines 259-260.
WriteHists ==
    /\ eng.pc = "hists"
    /\ UNCHANGED <<trim, reg, hs, rdr, mn, clip>>
    /\ eng' = [eng EXCEPT !.hist_written = TRUE, !.pc = "done"]

Next == BaselineStep \/ ProgStep \/ CompareAndWrite \/ WriteHists

(***************************************************************************)
(* main, lines 290-314                                                     *)
(*                                                                         *)
(* mn.paths is what glob still has to hand out, opened the BAMReaders      *)
(* constructed so far, closed those whose file was closed, out and hist    *)
(* the state of the two outputs, rows the rows summarize has written.      *)
(* pc = "raised" is an exception leaving main, pc = "exited" its return.   *)
(* summarize is taken here by its outcome only: it returns or raises,      *)
(* after some rows.                                                        *)
(***************************************************************************)
MaxMainRows == 2

\* The orders in which glob may hand out the files of a set S.
RECURSIVE Orders(_)
Orders(S) ==
    IF S = {} THEN {<<>>}
    ELSE UNION {{<<x>> \o r : r \in Orders(S \ {x})} : x \in S}

GlobResults == UNION {Orders(S) : S \in SUBSET ProgSet}

MainIdle ==
    [pc |-> "idle", paths |-> <<>>, bed |-> FALSE, opened |-> {}, closed |-> {},
     out |-> "unopened", hist |-> "unopened", rows |-> 0, err |-> "none"]

MainStart ==
    {[MainIdle EXCEPT !.pc = "glob", !.paths = ps, !.bed = b] :
        ps \in GlobResults, b \in BOOLEAN}

MainRaise(m, exc) == [m EXCEPT !.pc = "raised", !.err = exc]

\* BAMReader(path): pysam.AlignmentFile opens the file or raises.
OpenReaderOutcomes(m) ==
    LET name == Head(m.paths)
        rest == Tail(m.paths)
    IN  { [m EXCEPT !.paths = rest, !.opened = @ \cup {name},
                    !.pc = IF rest = <<>> THEN "regions" ELSE "glob"],
          MainRaise(m, "OSError") }

\* Line 300: Bed.__init__ reads args.bed, a local variable of main.
LoadRegionsOutcome(m) ==
    IF m.bed THEN MainRaise(m, "NameError") ELSE [m EXCEPT !.pc = "outputs"]

\* t.close() for a BAMReader: the class defines no close.
ReaderClose(m, name) == [closed |-> m.closed, raised |-> "AttributeError"]

\* Lines 310-314, entered with the exception exc in flight ("none" for none).
FinallyOutcome(m, exc) ==
    LET order == SelectSeq(AllProgs, LAMBDA p : p \in m.opened)
    IN  IF order = <<>>
        THEN IF exc = "none" THEN [m EXCEPT !.pc = "exited"] ELSE MainRaise(m, exc)
        ELSE LET c == ReaderClose(m, Head(order))
             IN  MainRaise([m EXCEPT !.closed = c.closed], c.raised)

\* open_output(path) as a context manager: the file is opened or the call
\* raises; leaving the with block closes what it opened.
OpenOutput == {"open", "OSError"}

WithExit(status) == IF status = "open" THEN "closed" ELSE status

\* Line 303: both outputs open, or the with statement is left at once.
OpenOutputsOutcomes(m) ==
    { IF o # "open" THEN FinallyOutcome(m, o)
      ELSE IF h # "open" THEN FinallyOutcome([m EXCEPT !.out = WithExit(o)], h)
      ELSE [m EXCEPT !.out = o, !.hist = h, !.pc = "summarize"]
      : o \in OpenOutput, h \in OpenOutput }

\* Lines 304-309 and the exits of the with and try blocks: summarize wrote n
\* rows and returned, or raised exc; enumerate(None) raises at line 197.
RunSummarizeOutcomes(m) ==
    { LET m1 == [m EXCEPT !.rows = n, !.out = WithExit(@), !.hist = WithExit(@)]
      IN  FinallyOutcome(m1, exc)
      : n \in IF Untrimmed \in m.opened THEN 0..MaxMainRows ELSE {0},
        exc \in IF Untrimmed \in m.opened
                THEN {"none", "StopIteration", "AssertionError", "RuntimeError"}
                ELSE {"TypeError"} }

OpenReader ==
    /\ mn.pc = "glob" /\ mn.paths # <<>>
    /\ UNCHANGED <<trim, reg, hs, rdr, eng, clip>>
    /\ mn' \in OpenReaderOutcomes(mn)

NoFiles ==
    /\ mn.pc = "glob" /\ mn.paths = <<>>
    /\ UNCHANGED <<trim, reg, hs, rdr, eng, clip>>
    /\ mn' = [mn EXCEPT !.pc = "regions"]

LoadRegions ==
    /\ mn.pc = "regions"
    /\ UNCHANGED <<trim, reg, hs, rdr, eng, clip>>
    /\ mn' = LoadRegionsOutcome(mn)

OpenOutputs ==
    /\ mn.pc = "outputs"
    /\ UNCHANGED <<trim, reg, hs, rdr, eng, clip>>
    /\ mn' \in OpenOutputsOutcomes(mn)

RunSummarize ==
    /\ mn.pc = "summarize"
    /\ UNCHANGED <<trim, reg, hs, rdr, eng, clip>>
    /\ mn' \in RunSummarizeOutcomes(mn)

NextMain == OpenReader \/ NoFiles \/ LoadRegions \/ OpenOutputs \/ RunSummarize

(***************************************************************************)
(* Specification SpecClip: TableRead.set_from_read on one record.          *)
(*                                                                         *)
(* get_reference_positions(full_length=True) gives one entry per base:     *)
(* None for a soft-clipped base, the 0-based reference position otherwise. *)
(* The records drawn have front soft-clipped bases, then aligned bases at  *)
(* consecutive positions from start, then back soft-clipped bases.         *)
(***************************************************************************)
MaxClip == 2

Nones(n) == [k \in 1..n |-> None]

RefPositions(front, start, aligned, back) ==
    Nones(front) \o [k \in 1..aligned |-> start + k - 1] \o Nones(back)

ClipReads ==
    { [Rec(1, TRUE, FALSE, TRUE, FALSE, FALSE, LongSeq) EXCEPT
          !.reference_start = start, !.reference_end = start + aligned,
          !.ref_pos = RefPositions(front, start, aligned, back)]
      : front \in 0..MaxClip, back \in 0..MaxClip, aligned \in 1..MaxClip,
        start \in 0..MaxClip }
    \cup
    { [Rec(1, TRUE, FALSE, FALSE, FALSE, TRUE, LongSeq) EXCEPT !.ref_pos = Nones(n)]
      : n \in 1..MaxClip }

ClipIdle == [pc |-> "idle", r |-> Rec(1, TRUE, FALSE, TRUE, FALSE, FALSE, LongSeq),
             read |-> NewTableRead]

ClipStart == {[ClipIdle EXCEPT !.pc = "call", !.r = r] : r \in ClipReads}

CallSetFromRead ==
    /\ clip.pc = "call"
    /\ UNCHANGED <<trim, reg, hs, rdr, eng, mn>>
    /\ clip' = [clip EXCEPT !.pc = "done", !.read = SetFromRead(clip.read, clip.r)]

NextClip == CallSetFromRead

(***************************************************************************)
(* Specifications of the components taken alone.                           *)
(***************************************************************************)
InitTrim == trim \in TrimStart /\ reg = RegIdle /\ hs = HistIdle /\ rdr = ReaderIdle /\ eng = EngIdle /\ mn = MainIdle /\ clip = ClipIdle

SpecTrim == InitTrim /\ [][NextTrim]_vars

InitRegion == reg \in RegStart /\ trim = TrimIdle /\ hs = HistIdle /\ rdr = ReaderIdle /\ eng = EngIdle /\ mn = MainIdle /\ clip = ClipIdle

SpecRegion == InitRegion /\ [][NextRegion]_vars

InitHist == hs \in HistStart /\ trim = TrimIdle /\ reg = RegIdle /\ rdr = ReaderIdle /\ eng = EngIdle /\ mn = MainIdle /\ clip = ClipIdle

SpecHist == InitHist /\ [][NextHist]_vars

InitReader == rdr = ReaderStart /\ trim = TrimIdle /\ reg = RegIdle /\ hs = HistIdle /\ eng = EngIdle /\ mn = MainIdle /\ clip = ClipIdle

SpecReader == InitReader /\ [][NextReader]_vars

InitMain == mn \in MainStart /\ trim = TrimIdle /\ reg = RegIdle /\ hs = HistIdle /\ rdr = ReaderIdle /\ eng = EngIdle /\ clip = ClipIdle

SpecMain == InitMain /\ [][NextMain]_vars

InitClip == clip \in ClipStart /\ trim = TrimIdle /\ reg = RegIdle /\ hs = HistIdle /\ rdr = ReaderIdle /\ eng = EngIdle /\ mn = MainIdle

SpecClip == InitClip /\ [][NextClip]_vars

(***************************************************************************)
(* Specification Spec: one run of summarize.                               *)
(***************************************************************************)
Init ==
    /\ eng \in EngStart
    /\ trim = TrimIdle /\ reg = RegIdle /\ hs = HistIdle /\ rdr = ReaderIdle
    /\ mn = MainIdle /\ clip = ClipIdle

Spec == Init /\ [][Next]_vars

(***************************************************************************)
(* Claims about set_region (checked under SpecRegion).                     *)
(***************************************************************************)
\* The mapped interval of the read, [reference_start, reference_end).
RegRead == [chrom |-> reg.chrm, start |-> reg.start, end |-> reg.end]

RegContained ==
    \E k \in 1..Len(reg.regions) :
        /\ reg.regions[k].chrom = reg.chrm
        /\ reg.regions[k].start <= reg.start
        /\ reg.end <= reg.regions[k].end

RegDisjoint ==
    \A k \in 1..Len(reg.regions) :
        reg.regions[k].chrom # reg.chrm \/ OverlapTrue(reg.regions[k], RegRead) = 0

\* C10: a mapped read contained in a region gets in_region = 1 (min_overlap <= 1.0),
\* a read overlapping no region gets in_region = 0, and every overlap length
\* computed is the true intersection length, at most the query's length.
C10_RegionMembership ==
    (reg.pc = "done" /\ reg.mapped) =>
        /\ (RegContained /\ reg.min_overlap_halves <= 2) => reg.in_region = 1
        /\ RegDisjoint => reg.in_region = 0
        /\ \A k \in 1..Len(reg.overlaps) :
              /\ reg.overlaps[k][3] = OverlapTrue(reg.overlaps[k][2], reg.overlaps[k][1])
              /\ reg.overlaps[k][3] <= reg.overlaps[k][1].end - reg.overlaps[k][1].start

(***************************************************************************)
(* Claims about summarize (checked under Spec).                            *)
(***************************************************************************)
\* The rows dict holds the rows last handed to the row writer.
RowsEmitted == eng.pc \in {"loop", "hists", "done"} /\ eng.i > 0

ProgNames == {Progs[j] : j \in 1..Len(Progs)}

\* Number of lines written for program p (and read name n).
LinesOf(p) == Cardinality({j \in 1..Len(eng.written) : eng.written[j][1] = p})

LinesOfName(p, n) ==
    Cardinality({j \in 1..Len(eng.written) :
                    eng.written[j][1] = p /\ eng.written[j][2] = n})

\* C1: without a row cap, a finished run has written exactly one row per program
\* (baseline included) for every read name the baseline file held, its last one
\* included; no program ever has more rows than the baseline.
C1_OneRowPerIdentity ==
    /\ \A p \in ProgNames : LinesOf(p) <= LinesOf(Untrimmed)
    /\ (eng.pc = "done" /\ eng.max_reads = None) =>
          \A n \in eng.seen, p \in ProgSet : LinesOfName(p, n) = 1

\* C2: a program without a group at the baseline's read name gets a row with
\* discarded = true and both read summaries at their defaults, and a program
\* stream that has ended never stops the run.
C2_DiscardedWhenMissing ==
    /\ RowsEmitted =>
          \A p \in ProgNames \ eng.consumed :
              /\ eng.rows[p].discarded
              /\ eng.rows[p].read1 = NewTableRead
              /\ eng.rows[p].read2 = NewTableRead
    /\ \A p \in ProgNames :
          eng.readers[p].eof => ~(eng.pc = "aborted" /\ eng.err = "StopIteration")

\* The baseline group of this step is one pair of which a mate failed quality.
BaselineFailedQuality ==
    /\ Len(eng.u1) = 1 /\ Len(eng.u2) = 1
    /\ eng.u1[1].is_qcfail \/ eng.u2[1].is_qcfail

\* C3 as stated: baseline failed quality, program without a group: baseline row
\* failed and skipped, program row skipped and failed and not discarded.
C3_FailedNotDiscarded ==
    (RowsEmitted /\ BaselineFailedQuality) =>
        \A p \in ProgNames \ eng.consumed :
            /\ eng.rows[Untrimmed].failed /\ eng.rows[Untrimmed].skipped
            /\ eng.rows[p].skipped /\ eng.rows[p].failed
            /\ ~eng.rows[p].discarded

\* C3 amended: the program row is skipped, failed and also discarded.
C3_FailedAndDiscarded ==
    (RowsEmitted /\ BaselineFailedQuality) =>
        \A p \in ProgNames \ eng.consumed :
            /\ eng.rows[Untrimmed].failed /\ eng.rows[Untrimmed].skipped
            /\ eng.rows[p].skipped /\ eng.rows[p].failed
            /\ eng.rows[p].discarded

C3_Witness ==
    /\ RowsEmitted /\ BaselineFailedQuality
    /\ eng.consumed = {"p2"}
    /\ eng.rows["p1"].skipped /\ eng.rows["p1"].failed /\ eng.rows["p1"].discarded

FlagCount(row) ==
    Cardinality({f \in {"failed", "split", "discarded", "skipped", "valid"} : row[f]})

\* C4 as stated: at most one of failed, split, discarded, skipped, valid is true
\* in an emitted row.
C4_FlagsExclusive ==
    RowsEmitted => \A p \in ProgSet : FlagCount(eng.rows[p]) <= 1

\* C4 amended: in an emitted row valid excludes failed, split and discarded (and
\* skipped, in a program's row), split excludes discarded, and failed comes with
\* skipped.
C4_FlagsConsistent ==
    RowsEmitted =>
        \A p \in ProgSet :
            LET row == eng.rows[p]
            IN  /\ row.valid => ~row.failed /\ ~row.split /\ ~row.discarded
                /\ (row.valid /\ p # Untrimmed) => ~row.skipped
                /\ ~(row.split /\ row.discarded)
                /\ row.failed => row.skipped

\* Rows of one step: a failed and skipped baseline row, a program row that is
\* failed, skipped and split, and one that is failed, skipped and discarded.
C4_Witness ==
    /\ RowsEmitted
    /\ eng.rows[Untrimmed].failed /\ eng.rows[Untrimmed].skipped
    /\ eng.rows["p1"].failed /\ eng.rows["p1"].skipped /\ eng.rows["p1"].split
    /\ eng.rows["p2"].failed /\ eng.rows["p2"].skipped /\ eng.rows["p2"].discarded

\* C11: with a row cap M >= 1 at most M baseline groups are processed and no
\* step is begun once M is reached; the rows of a read name are written for
\* every program or for none; and when a step has ended (the loop is back at
\* its top, or has been left by the cap or by the end of the baseline), the
\* read name at which program readers were advanced has its rows written.
C11_CapKeepsStepsWhole ==
    /\ eng.max_reads >= 1 => eng.i <= eng.max_reads
    /\ (eng.max_reads >= 1 /\ eng.pc = "loop") => eng.i < eng.max_reads
    /\ \A n \in 1..MaxId :
          (\E p \in ProgSet : LinesOfName(p, n) > 0) =>
              \A p \in ProgSet : LinesOfName(p, n) = 1
    /\ (eng.pc \in {"loop", "hists", "done"} /\ eng.consumed # {}) =>
          \A p \in ProgSet : LinesOfName(p, eng.name) = 1

\* The cap of one row stopped a run whose baseline held more read names, after
\* a step in which both programs were advanced.
C11_Witness ==
    /\ eng.pc = "done" /\ eng.max_reads = 1 /\ eng.i = 1
    /\ eng.readers[Untrimmed].cached # NoName
    /\ eng.consumed = ProgNames
    /\ Len(eng.written) = Len(AllProgs)

\* The baseline group of this step has a mate list that does not hold exactly
\* one record.
BaselineAnomaly == eng.i > 0 /\ (Len(eng.u1) # 1 \/ Len(eng.u2) # 1)

\* C12: a group with a mate list that does not hold exactly one record, in the
\* baseline or in a program file, never aborts the run (the assertions on the
\* mate lists never fail), and the row of an anomalous baseline group is
\* written with split = true and without any read summary.
C12_AnomalyFlaggedNotFatal ==
    /\ ~(eng.pc = "aborted" /\ eng.err = "AssertionError")
    /\ (RowsEmitted /\ BaselineAnomaly) =>
          /\ eng.rows[Untrimmed].split
          /\ eng.rows[Untrimmed].read1 = NewTableRead
          /\ eng.rows[Untrimmed].read2 = NewTableRead
          /\ \A p \in ProgNames :
                eng.rows[p].read1 = NewTableRead /\ eng.rows[p].read2 = NewTableRead

\* The step (1, 2, ...) and the place within its step of the j-th written row.
StepOfLine(j) == ((j - 1) \div Len(AllProgs)) + 1

PlaceOfLine(j) == ((j - 1) % Len(AllProgs)) + 1

\* C14: the rows are written step by step, within a step the baseline's row
\* first and then the programs' rows in the order of trimmed.keys(), all rows
\* of a step carrying the read name of its first row and the step's index;
\* each row of the next step has a later read name; and once the histograms
\* are written no row follows (the run is done).
C14_RowOrder ==
    /\ \A j \in 1..Len(eng.written) :
          /\ eng.written[j][1] = AllProgs[PlaceOfLine(j)]
          /\ eng.written[j][3] = StepOfLine(j)
          /\ eng.written[j][2] = eng.written[j + 1 - PlaceOfLine(j)][2]
          /\ j + Len(AllProgs) <= Len(eng.written) =>
                eng.written[j][2] < eng.written[j + Len(AllProgs)][2]
    /\ Len(eng.written) % Len(AllProgs) = 0
    /\ eng.hist_written => eng.pc = "done"

\* A finished run that wrote the rows of two read names, then the histograms.
C14_Witness ==
    /\ eng.pc = "done" /\ eng.hist_written
    /\ Len(eng.written) = 2 * Len(AllProgs)
    /\ eng.written[1][2] # eng.written[Len(AllProgs) + 1][2]

\* add_reads was called in this step only for pairs judged usable: for the
\* baseline a group of one unfailed pair, for a program a group it consumed at
\* this read name and that is not split.
AddedOnlyUsable ==
    /\ Untrimmed \in eng.added =>
          Len(eng.u1) = 1 /\ Len(eng.u2) = 1 /\ ~BaselineFailedQuality
    /\ \A p \in ProgNames :
          p \in eng.added =>
              p \in eng.consumed /\ p \in DOMAIN eng.rows /\ ~eng.rows[p].split
                /\ ~eng.rows[p].discarded

\* A histogram changes only by the add_reads call of its own program, once in
\* a step.
AddedOnceToOwnHist ==
    \A p \in ProgSet :
        eng'.hists[p] # eng.hists[p] =>
            /\ p \in eng'.added
            /\ p \notin eng.added \/ eng'.i # eng.i

\* C15: a pair is added to a histogram only when that pair was judged usable,
\* at most once, and only to the histogram of its own program.
C15_HistOnlyUsablePairs == [][AddedOnceToOwnHist]_vars /\ []AddedOnlyUsable

\* A step in which the baseline pair and p1's pair were added while p2's group,
\* consumed as well, was split and not added.
C15_Witness ==
    /\ eng.pc = "compare"
    /\ eng.added = {Untrimmed, "p1"}
    /\ eng.consumed = ProgNames
    /\ eng.rows["p2"].split

\* The row summarize should write for program p, whose pair this step took as
\* valid: flags and read summaries of its pair, the trimming of each mate
\* against the baseline's mate.
ComparisonOf(p) ==
    LET t1 == eng.valid[p][1]
        t2 == eng.valid[p][2]
        sp == SetFromPair(NewRow(p, eng.name, eng.i), t1, t2).row
    IN  [sp EXCEPT !.read1 = WithTrimming(@, eng.u1[1], t1, eng.use_edit_distance),
                   !.read2 = WithTrimming(@, eng.u2[1], t2, eng.use_edit_distance)]

\* The fields of a read summary other than in_region.
SameButRegion(a, b) == [a EXCEPT !.in_region = 0] = [b EXCEPT !.in_region = 0]

\* The comparison without the region membership: what C16 says of the flags,
\* the mapping and clipping summaries and the trimming boundaries.
C16_ComparisonButRegion ==
    (RowsEmitted /\ ~eng.skip) =>
        \A p \in DOMAIN eng.valid :
            LET row == eng.rows[p]
                exp == ComparisonOf(p)
            IN  /\ row.proper = exp.proper /\ row.valid = exp.valid
                /\ SameButRegion(row.read1, exp.read1)
                /\ SameButRegion(row.read2, exp.read2)

\* C16: the emitted row of a program whose unsplit group was consumed at a
\* usable baseline pair carries the whole comparison, and with regions supplied
\* every mapped mate has a region membership of 0 or 1.
C16_FullComparison ==
    /\ C16_ComparisonButRegion
    /\ (RowsEmitted /\ ~eng.skip /\ Len(eng.regions) > 0) =>
          \A p \in DOMAIN eng.valid :
              /\ eng.rows[p].read1.mapped => eng.rows[p].read1.in_region \in {0, 1}
              /\ eng.rows[p].read2.mapped => eng.rows[p].read2.in_region \in {0, 1}

\* What each program reader did in the step whose rows were just written:
\* it is advanced exactly when its row is not discarded; a reader that was
\* advanced now has a later read name at its front; one that was not has a
\* front other than the baseline's read name (or none); and the pairs taken
\* for comparison all carry the baseline's read name.
SyncAfterStep ==
    RowsEmitted =>
        /\ \A p \in ProgNames :
              /\ eng.rows[p].discarded <=> p \notin eng.consumed
              /\ p \in eng.consumed => eng.readers[p].cached > eng.name
              /\ p \notin eng.consumed => eng.readers[p].cached # eng.name
        /\ \A p \in DOMAIN eng.valid :
              /\ eng.valid[p][1].query_name = eng.name
              /\ eng.valid[p][2].query_name = eng.name
              /\ eng.u1[1].query_name = eng.name /\ eng.u2[1].query_name = eng.name

\* One pass of the loop over the trimmed readers: only the reader of the
\* current program moves, and with a record at its front it is advanced
\* exactly when that record has the baseline's read name.
SyncStep ==
    (eng.pc = "progs" /\ eng'.pc \in {"progs", "compare"}) =>
        LET p == Progs[eng.k]
        IN  /\ \A q \in ProgSet \ {p} : eng'.readers[q] = eng.readers[q]
            /\ eng'.consumed \ eng.consumed \subseteq {p}
            /\ eng.readers[p].cached # NoName =>
                  (p \in eng'.consumed <=> eng.readers[p].cached = eng.name)

\* C18: a program reader is advanced at a step exactly when its front group
\* has the baseline's read name, by one group, whether or not the baseline
\* group is usable; so a program's row is discarded exactly when the program
\* has no group of that name, and a consumed pair is compared with the
\* baseline pair of its own name.
C18_ReadersInStep == [][SyncStep]_vars /\ []SyncAfterStep

\* An unusable baseline step in which p1's group was consumed and p2, with a
\* later read name at its front, was discarded.
C18_Witness ==
    /\ RowsEmitted /\ eng.skip
    /\ eng.consumed = {"p1"}
    /\ eng.rows["p2"].discarded /\ eng.readers["p2"].cached > eng.name

\* C19: the baseline pair of a step was added to the baseline histogram
\* exactly when the baseline row written for it has skipped = false, and every
\* row written with skipped = true has valid = false, proper = false and both
\* read summaries at their defaults.
C19_HistAgreesWithRows ==
    RowsEmitted =>
        /\ Untrimmed \in eng.added <=> ~eng.rows[Untrimmed].skipped
        /\ \A p \in ProgSet :
              eng.rows[p].skipped =>
                  /\ ~eng.rows[p].valid /\ ~eng.rows[p].proper
                  /\ eng.rows[p].read1 = NewTableRead
                  /\ eng.rows[p].read2 = NewTableRead

(***************************************************************************)
(* Claims about TableRead.set_from_read (checked under SpecClip).          *)
(***************************************************************************)
\* Number of leading entries of seq that are None.
RECURSIVE LeadingNone(_)
LeadingNone(seq) ==
    IF seq = <<>> \/ Head(seq) # None THEN 0 ELSE 1 + LeadingNone(Tail(seq))

\* C17: after set_from_read on a mapped read, clipped_front is the number of
\* leading and clipped_back the number of trailing bases without a reference
\* position (position 0 is a position); for an unmapped read both stay -1.
C17_ClipCounts ==
    clip.pc = "done" =>
        IF clip.r.is_unmapped
        THEN clip.read.clipped_front = -1 /\ clip.read.clipped_back = -1
        ELSE /\ clip.read.clipped_front = LeadingNone(clip.r.ref_pos)
             /\ clip.read.clipped_back = LeadingNone(Reversed(clip.r.ref_pos))

(***************************************************************************)
(* Claims about main (checked under SpecMain).                             *)
(***************************************************************************)
\* C13: when main is left, by return or by an exception, every BAMReader it
\* constructed has been closed and neither output is still open; and when an
\* input or output could not be opened no row was written.
C13_AllClosedOnExit ==
    mn.pc \in {"exited", "raised"} =>
        /\ mn.opened \subseteq mn.closed
        /\ mn.out # "open" /\ mn.hist # "open"
        /\ mn.err = "OSError" => mn.rows = 0

(***************************************************************************)
(* Claims about BAMReader.__next__ (checked under SpecReader).             *)
(***************************************************************************)
DeliveredNames == {rdr.delivered[j].query_name : j \in 1..Len(rdr.delivered)}

\* The groups (by index) whose mate list for record r holds r.
GroupsHolding(r) ==
    {g \in 1..Len(rdr.groups) :
        LET mates == IF r.is_read1 THEN rdr.groups[g][2] ELSE rdr.groups[g][3]
        IN  \E j \in 1..Len(mates) : mates[j] = r}

\* C5: once end-of-stream is signalled, the pulls have returned exactly one group
\* per read name of the stream, in stream order, and every record of the stream
\* sits in exactly one group, under its own name and in the list of its mate.
C5_GroupsCoverStream ==
    rdr.pc = "stopped" =>
        /\ Len(rdr.groups) = Cardinality(DeliveredNames)
        /\ \A g \in 1..Len(rdr.groups), h \in 1..Len(rdr.groups) :
              g < h => rdr.groups[g][1] < rdr.groups[h][1]
        /\ \A j \in 1..Len(rdr.delivered) :
              /\ Cardinality(GroupsHolding(rdr.delivered[j])) = 1
              /\ \A g \in GroupsHolding(rdr.delivered[j]) :
                    rdr.groups[g][1] = rdr.delivered[j].query_name

(***************************************************************************)
(* Claims about Hist.add_reads (checked under SpecHist).                   *)
(***************************************************************************)
RECURSIVE SumOver(_, _)
SumOver(S, f) ==
    IF S = {} THEN 0
    ELSE LET x == CHOOSE y \in S : TRUE IN f[x] + SumOver(S \ {x}, f)

HistColumnSum(read, side, pos) ==
    SumOver(nuc, [base \in nuc |-> hs.hists[read][side][base][pos]])

HistLongEnough(read, pos) ==
    Cardinality({k \in 1..Len(hs.accepted) : Len(hs.accepted[k][read]) >= pos})

\* C9: for every mate, direction and window position p, the counts of the five
\* bases at p sum to the number of pairs handed to add_reads whose read for that
\* mate has length >= p (reads shorter than the window included).
C9_HistColumnSums ==
    \A read \in 1..2, side \in 0..1, pos \in 1..NHistBases :
        HistColumnSum(read, side, pos) = HistLongEnough(read, pos)

(***************************************************************************)
(* Claims about set_trimming (checked under SpecTrim).                     *)
(***************************************************************************)
TrimU == Upper(trim.u)

TrimT == Upper(trim.t)

TrimLastOffset == Len(TrimU) - Len(TrimT)

TrimHasExact ==
    \E i \in 0..TrimLastOffset : Slice(TrimU, i, Len(TrimT)) = TrimT

TrimWindowDist(i) == Levenshtein(Slice(TrimU, i, Len(TrimT)), TrimT)

\* C6: when T (n <= m) occurs in U, trimmed_front is the lowest offset at which
\* T occurs, trimmed_back = m - n - trimmed_front, U[front : front + n] = T,
\* and (ACGTACGTAC, GTAC) gives (2, 4).
C6_ExactBoundary ==
    (trim.pc = "done" /\ Len(TrimT) <= Len(TrimU) /\ TrimHasExact) =>
        /\ trim.trimmed_front \in 0..TrimLastOffset
        /\ Slice(TrimU, trim.trimmed_front, Len(TrimT)) = TrimT
        /\ \A j \in 0..(trim.trimmed_front - 1) : Slice(TrimU, j, Len(TrimT)) # TrimT
        /\ trim.trimmed_back = Len(TrimU) - Len(TrimT) - trim.trimmed_front
        /\ (trim.u = ExampleU /\ trim.t = ExampleT) =>
               (trim.trimmed_front = 2 /\ trim.trimmed_back = 4)

\* The example of the claim, whose T occurs at offsets 2 and 6, has been computed.
C6_Witness ==
    /\ trim.pc = "done"
    /\ trim.u = ExampleU /\ trim.t = ExampleT
    /\ Slice(TrimU, 6, 4) = TrimT
    /\ trim.trimmed_front = 2

C8_SentinelAsClaimed ==
    (trim.pc = "done" /\ ~trim.use_edit_distance
        /\ Len(TrimT) <= Len(TrimU) /\ ~TrimHasExact) =>
        trim.trimmed_front = -1

\* C8 amended: the sentinel is reported when n < m (with trimmed_back derived
\* from it, m - n + 1); when n = m nothing is scanned and (0, 0) is reported.
C8_SentinelWhenShorter ==
    (trim.pc = "done" /\ ~trim.use_edit_distance
        /\ Len(TrimT) <= Len(TrimU) /\ ~TrimHasExact) =>
        IF Len(TrimT) < Len(TrimU)
        THEN trim.trimmed_front = -1
             /\ trim.trimmed_back = Len(TrimU) - Len(TrimT) + 1
        ELSE trim.trimmed_front = 0 /\ trim.trimmed_back = 0

C8_Witness ==
    /\ trim.pc = "done" /\ ~trim.use_edit_distance
    /\ Len(TrimT) < Len(TrimU) /\ ~TrimHasExact
    /\ trim.trimmed_front = -1

=============================================================================
